---- MODULE Spec2Model ----
(***************************************************************************)
(* Model of the tool-call handler of the real-estate content-feed MCP      *)
(* server (src/src/index.ts).  One invocation is one run of the async      *)
(* CallToolRequestSchema handler: it runs synchronously up to the single   *)
(* `await apiClient.get/post`, is suspended while the HTTP round-trip is   *)
(* in flight, and continues (or lands in the catch block) when the remote  *)
(* call is fulfilled or rejected.                                          *)
(***************************************************************************)
EXTENDS Integers, Sequences, FiniteSets, TLC

VARIABLES calls, wire, stdio

vars == <<calls, wire, stdio>>

(***************************************************************************)
(* JavaScript values.  A string is a sequence of text units (characters    *)
(* for the texts the code inspects, whole literals elsewhere); an object   *)
(* is a function from its own keys to values.                              *)
(***************************************************************************)
Undefined == [t |-> "undefined"]
Null == [t |-> "null"]
Str(s) == [t |-> "string", v |-> s]
Num(n) == [t |-> "number", v |-> n]
Arr(q) == [t |-> "array", v |-> q]
Obj(f) == [t |-> "object", v |-> f]
Lit(s) == Str(<<s>>)
EmptyStr == Str(<<>>)
EmptyObj == Obj([k \in {} |-> Undefined])

\* x.k for a non-nullish x: the own property, undefined when there is none
Get(x, k) ==
  IF x.t = "object" /\ k \in DOMAIN x.v THEN x.v[k] ELSE Undefined

\* x?.k
OptGet(x, k) ==
  IF x \in {Undefined, Null} THEN Undefined ELSE Get(x, k)

\* ToBoolean(x)
Truthy(x) ==
  /\ x \notin {Undefined, Null, EmptyStr}
  /\ ~(x.t = "number" /\ x.v = 0)

\* a || b
Or(a, b) == IF Truthy(a) THEN a ELSE b

\* The value JSON.stringify writes: members whose value is undefined are
\* omitted from objects, undefined array elements are written as null.
RECURSIVE JsonValue(_)
JsonValue(x) ==
  CASE x.t = "object" ->
         Obj([k \in {j \in DOMAIN x.v : x.v[j] # Undefined} |-> JsonValue(x.v[k])])
    [] x.t = "array" ->
         Arr([i \in 1..Len(x.v) |->
                IF x.v[i] = Undefined THEN Null ELSE JsonValue(x.v[i])])
    [] OTHER -> x

\* JSON.stringify(x, null, 2): a text, or undefined for undefined
Stringify(x) ==
  IF x = Undefined THEN Undefined ELSE [t |-> "text", json |-> JsonValue(x)]


(***************************************************************************)
(* Configuration and the axios client.                                     *)
(***************************************************************************)
\* process.env.FEED_ID || "292"
FEED_ID == <<"2", "9", "2">>

DigitValue(c) ==
  CASE c = "0" -> 0 [] c = "1" -> 1 [] c = "2" -> 2 [] c = "3" -> 3
    [] c = "4" -> 4 [] c = "5" -> 5 [] c = "6" -> 6 [] c = "7" -> 7
    [] c = "8" -> 8 [] c = "9" -> 9

\* parseInt(s) of a decimal digit string
RECURSIVE ParseInt(_)
ParseInt(s) ==
  IF s = <<>> THEN 0
  ELSE 10 * ParseInt(SubSeq(s, 1, Len(s) - 1)) + DigitValue(s[Len(s)])

\* The request apiClient.get(url, {params}) puts on the wire: axios leaves
\* out the query parameters whose value is undefined or null.
ApiGet(url, params) ==
  [method |-> "GET", url |-> url,
   params |-> [k \in {j \in DOMAIN params : params[j] \notin {Undefined, Null}}
                 |-> params[k]],
   body |-> Undefined]

\* The request apiClient.post(url, data) puts on the wire: the body is the
\* JSON serialisation of data.
ApiPost(url, data) ==
  [method |-> "POST", url |-> url,
   params |-> [k \in {} |-> Undefined],
   body |-> JsonValue(data)]

EntityTypesUrl == <<"/api/content/entity_types/">> \o FEED_ID
EntityValuesUrl == <<"/api/content/entity_values/">> \o FEED_ID
FeedUrl == <<"/api/content/feed">>

(***************************************************************************)
(* Steps of the handler.  A step sends the requests in `sent` and then     *)
(* suspends on the remote call, returns a result, or throws.               *)
(***************************************************************************)
\* The call without its await: the request is sent and the handler goes on
\* with the pending promise, whose data is undefined
AwaitForgotten(req) ==
  [kind |-> "return", sent |-> <<req>>,
   result |-> [content |-> <<[type |-> "text", text |-> Undefined]>>]]

\* const response = await apiClient.get/post(...): the request is sent and
\* the handler is suspended until the round-trip resolves
Await(req) == [kind |-> "await", sent |-> <<req>>]
Return(result) == [kind |-> "return", sent |-> <<>>, result |-> result]
Throw(error) == [kind |-> "throw", sent |-> <<>>, error |-> error]

\* new Error(message)
NewError(message) == Obj([message |-> Str(message)])

\* The TypeError of reading property key of undefined or null
TypeErrorRead(x, key) ==
  NewError(<<"Cannot read properties of ", x.t, " (reading '", key, "')">>)

Nullish(x) == x \in {Undefined, Null}

\* { content: [{ type: "text", text }] }
TextContent(text) == [content |-> <<[type |-> "text", text |-> text]>>]

\* return { content: [{ type: "text", text: JSON.stringify(response.data, null, 2) }] }
PassThrough(response) == Return(TextContent(Stringify(Get(response, "data"))))

\* { entity_type, entity_value }
EntityFilter(type, value) == Obj([entity_type |-> type, entity_value |-> value])

(***************************************************************************)
(* The cases of the switch.  XRequest(args) is the case up to its await,   *)
(* XResult(args, response) is the case after the await is fulfilled.       *)
(***************************************************************************)
\* case "list_available_entity_types"
ListAvailableEntityTypesRequest(args) ==
  Await(ApiGet(EntityTypesUrl, [k \in {} |-> Undefined]))

\* case "list_entity_values"
ListEntityValuesRequest(args) ==
  IF Nullish(args) THEN Throw(TypeErrorRead(args, "entity_type"))
  ELSE Await(ApiGet(EntityValuesUrl, [entity_type |-> Get(args, "entity_type")]))

\* case "lookup_cities" with partialNameLower computed before the request
LookupCitiesRequestEager(args) ==
  IF Nullish(args) THEN Throw(TypeErrorRead(args, "partial_name"))
  ELSE Await(ApiGet(EntityValuesUrl, [entity_type |-> Lit("city")]))

\* case "lookup_cities", the request
LookupCitiesRequest(args) ==
  Await(ApiGet(EntityValuesUrl, [entity_type |-> Lit("city")]))

\* String.prototype.toLowerCase, by character
LowerChar(c) ==
  CASE c = "N" -> "n" [] c = "E" -> "e" [] c = "W" -> "w" [] c = "B" -> "b"
    [] c = "O" -> "o" [] OTHER -> c

toLowerCase(s) == [i \in 1..Len(s) |-> LowerChar(s[i])]

\* String.prototype.includes
includes(s, part) ==
  \E i \in 0..(Len(s) - Len(part)) : SubSeq(s, i + 1, i + Len(part)) = part

\* The filter callback without the lower-casing of the city
CityMatchesCaseSensitive(city, partialNameLower) ==
  includes(city.v, partialNameLower)

\* (city) => city.toLowerCase().includes(partialNameLower)
CityMatches(city, partialNameLower) ==
  includes(toLowerCase(city.v), partialNameLower)

\* Array.prototype.filter with the callback above, element by element
RECURSIVE matchedCities(_, _)
matchedCities(cities, partialNameLower) ==
  IF cities = <<>> THEN <<>>
  ELSE (IF CityMatches(Head(cities), partialNameLower)
          THEN <<Head(cities)>> ELSE <<>>)
       \o matchedCities(Tail(cities), partialNameLower)

\* case "lookup_cities", after the await
LookupCitiesResult(args, response) ==
  LET partial_name == Get(args, "partial_name")
      unique_entity_value == Get(Get(response, "data"), "unique_entity_value")
  IN  IF Nullish(args) THEN Throw(TypeErrorRead(args, "partial_name"))
      ELSE IF Nullish(partial_name)
        THEN Throw(TypeErrorRead(partial_name, "toLowerCase"))
      ELSE IF partial_name.t # "string"
        THEN Throw(NewError(<<"args.partial_name.toLowerCase is not a function">>))
      ELSE IF Nullish(unique_entity_value)
        THEN Throw(TypeErrorRead(unique_entity_value, "filter"))
      ELSE IF unique_entity_value.t # "array"
        THEN Throw(NewError(<<"response.data.unique_entity_value.filter is not a function">>))
      ELSE IF \E i \in 1..Len(unique_entity_value.v) :
                unique_entity_value.v[i].t # "string"
        THEN Throw(NewError(<<"city.toLowerCase is not a function">>))
      ELSE LET matched == matchedCities(unique_entity_value.v,
                                        toLowerCase(partial_name.v))
           IN  Return(TextContent(Stringify(Obj(
                 [status |-> Lit("success"),
                  matched_cities |-> Arr(matched),
                  count |-> Num(Len(matched)),
                  usage_note |->
                    Lit("Use one of these exact city names with the search_by_city tool")]))))

\* The body of the two single-filter searches with 1-based page numbers
SingleFilterQueryOneBased(args, type, value) ==
  Obj([feed_id |-> Num(ParseInt(FEED_ID)),
       page_num |-> Or(Get(args, "page_num"), Num(1)),
       page_size |-> Or(Get(args, "page_size"), Num(10)),
       entity_details |-> Arr(<<EntityFilter(Lit(type), value)>>)])

\* The body of the two single-filter searches
SingleFilterQuery(args, type, value) ==
  Obj([feed_id |-> Num(ParseInt(FEED_ID)),
       page_num |-> Or(Get(args, "page_num"), Num(0)),
       page_size |-> Or(Get(args, "page_size"), Num(10)),
       entity_details |-> Arr(<<EntityFilter(Lit(type), value)>>)])

\* case "search_by_report_type"
SearchByReportTypeRequest(args) ==
  IF Nullish(args) THEN Throw(TypeErrorRead(args, "page_num"))
  ELSE Await(ApiPost(FeedUrl,
               SingleFilterQuery(args, "Report", Get(args, "report_type"))))

\* case "search_by_city"
SearchByCityRequest(args) ==
  IF Nullish(args) THEN Throw(TypeErrorRead(args, "page_num"))
  ELSE Await(ApiPost(FeedUrl,
               SingleFilterQuery(args, "city", Get(args, "city_name"))))

\* case "search_reports_by_date_range" declaring an empty filter list
SearchReportsByDateRangeRequestEmptyFilters(args) ==
  IF Nullish(args) THEN Throw(TypeErrorRead(args, "start_date"))
  ELSE Await(ApiPost(FeedUrl, Obj(
         [feed_id |-> Num(ParseInt(FEED_ID)),
          published_date_from |-> Get(args, "start_date"),
          published_date_to |-> Get(args, "end_date"),
          page_num |-> Or(Get(args, "page_num"), Num(0)),
          page_size |-> Or(Get(args, "page_size"), Num(10)),
          entity_details |-> Arr(<<>>)])))

\* case "search_reports_by_date_range"
SearchReportsByDateRangeRequest(args) ==
  IF Nullish(args) THEN Throw(TypeErrorRead(args, "start_date"))
  ELSE Await(ApiPost(FeedUrl, Obj(
         [feed_id |-> Num(ParseInt(FEED_ID)),
          published_date_from |-> Get(args, "start_date"),
          published_date_to |-> Get(args, "end_date"),
          page_num |-> Or(Get(args, "page_num"), Num(0)),
          page_size |-> Or(Get(args, "page_size"), Num(10))])))

\* case "advanced_content_search" with the defaults of the other searches
AdvancedContentSearchRequestDefaulting(args) ==
  IF Nullish(args) THEN Throw(TypeErrorRead(args, "published_date_from"))
  ELSE Await(ApiPost(FeedUrl, Obj(
         [feed_id |-> Num(ParseInt(FEED_ID)),
          published_date_from |-> Get(args, "published_date_from"),
          published_date_to |-> Get(args, "published_date_to"),
          page_num |-> Or(Get(args, "page_num"), Num(0)),
          page_size |-> Or(Get(args, "page_size"), Num(10)),
          entity_details |-> Get(args, "entity_details")])))

\* case "advanced_content_search"
AdvancedContentSearchRequest(args) ==
  IF Nullish(args) THEN Throw(TypeErrorRead(args, "published_date_from"))
  ELSE Await(ApiPost(FeedUrl, Obj(
         [feed_id |-> Num(ParseInt(FEED_ID)),
          published_date_from |-> Get(args, "published_date_from"),
          published_date_to |-> Get(args, "published_date_to"),
          page_num |-> Get(args, "page_num"),
          page_size |-> Get(args, "page_size"),
          entity_details |-> Get(args, "entity_details")])))

\* The body of the two latest-report cases
LatestReportQuery(args, reportValue) ==
  Obj([feed_id |-> Num(ParseInt(FEED_ID)),
       page_num |-> Num(0),
       page_size |-> Num(1),
       entity_details |-> Arr(<<EntityFilter(Lit("city"), Get(args, "city_name")),
                                EntityFilter(Lit("Report"), Lit(reportValue))>>)])

\* case "get_latest_market_report_by_city"
GetLatestMarketReportByCityRequest(args) ==
  IF Nullish(args) THEN Throw(TypeErrorRead(args, "city_name"))
  ELSE Await(ApiPost(FeedUrl,
               LatestReportQuery(args, "Monthly Report: Major Cities")))

\* case "get_latest_price_analysis_by_city" filtering on a report type of
\* its own
GetLatestPriceAnalysisByCityRequestOwnType(args) ==
  IF Nullish(args) THEN Throw(TypeErrorRead(args, "city_name"))
  ELSE Await(ApiPost(FeedUrl, LatestReportQuery(args, "Price Analysis")))

\* case "get_latest_price_analysis_by_city"
GetLatestPriceAnalysisByCityRequest(args) ==
  IF Nullish(args) THEN Throw(TypeErrorRead(args, "city_name"))
  ELSE Await(ApiPost(FeedUrl,
               LatestReportQuery(args, "Monthly Report: Major Cities")))

\* case "list_report_types", the request
ListReportTypesRequest(args) ==
  Await(ApiGet(EntityValuesUrl, [entity_type |-> Lit("Report")]))

\* case "list_report_types", after the await
ListReportTypesResult(args, response) ==
  LET unique_entity_value == Get(Get(response, "data"), "unique_entity_value")
  IN  IF Nullish(unique_entity_value)
        THEN Throw(TypeErrorRead(unique_entity_value, "length"))
      ELSE Return(TextContent(Stringify(Obj(
             [status |-> Lit("success"),
              report_types |-> unique_entity_value,
              count |-> IF unique_entity_value.t \in {"array", "string"}
                          THEN Num(Len(unique_entity_value.v)) ELSE Undefined,
              usage_note |->
                Lit("Use one of these exact report types with search_by_report_type tool")]))))

\* The default branch without the interpolated name
DefaultCaseNoName(toolName) == Throw(NewError(<<"Unknown tool">>))

\* default: throw new Error(`Unknown tool: ${toolName}`)
DefaultCase(toolName) == Throw(NewError(<<"Unknown tool: ">> \o toolName))

(***************************************************************************)
(* The handler: try { switch (toolName) ... } catch (error) { ... }.       *)
(***************************************************************************)
Name(s) == <<s>>

CatalogNames ==
  {"list_available_entity_types", "list_entity_values", "search_by_report_type",
   "lookup_cities", "search_by_city", "list_report_types",
   "search_reports_by_date_range", "advanced_content_search",
   "get_latest_market_report_by_city", "get_latest_price_analysis_by_city"}

\* switch (toolName), up to the await of the selected case
SwitchRequest(toolName, args) ==
  CASE toolName = Name("list_available_entity_types") ->
         ListAvailableEntityTypesRequest(args)
    [] toolName = Name("list_entity_values") -> ListEntityValuesRequest(args)
    [] toolName = Name("lookup_cities") -> LookupCitiesRequest(args)
    [] toolName = Name("search_by_report_type") -> SearchByReportTypeRequest(args)
    [] toolName = Name("search_by_city") -> SearchByCityRequest(args)
    [] toolName = Name("search_reports_by_date_range") ->
         SearchReportsByDateRangeRequest(args)
    [] toolName = Name("advanced_content_search") ->
         AdvancedContentSearchRequest(args)
    [] toolName = Name("get_latest_market_report_by_city") ->
         GetLatestMarketReportByCityRequest(args)
    [] toolName = Name("get_latest_price_analysis_by_city") ->
         GetLatestPriceAnalysisByCityRequest(args)
    [] toolName = Name("list_report_types") -> ListReportTypesRequest(args)
    [] OTHER -> DefaultCase(toolName)

\* The selected case after its await is fulfilled with response
SwitchResult(toolName, args, response) ==
  CASE toolName = Name("lookup_cities") -> LookupCitiesResult(args, response)
    [] toolName = Name("list_report_types") -> ListReportTypesResult(args, response)
    [] OTHER -> PassThrough(response)

\* The message with the transport-level message preferred
errorMessageTransportFirst(error) ==
  Or(Or(Get(error, "message"),
        OptGet(OptGet(OptGet(error, "response"), "data"), "message")),
     Lit("Unknown error occurred"))

\* error.response?.data?.message || error.message || "Unknown error occurred"
errorMessage(error) ==
  Or(Or(OptGet(OptGet(OptGet(error, "response"), "data"), "message"),
        Get(error, "message")),
     Lit("Unknown error occurred"))

\* The catch block without the optional chaining on error.response
CatchUnguarded(error) ==
  IF Nullish(Get(error, "response"))
    THEN [fault |-> TypeErrorRead(Undefined, "data")]
    ELSE TextContent(Stringify(Obj(
           [status |-> Lit("error"),
            message |-> errorMessage(error),
            details |-> Or(Get(Get(error, "response"), "data"), Null)])))

\* The catch block
Catch(error) ==
  TextContent(Stringify(Obj(
    [status |-> Lit("error"),
     message |-> errorMessage(error),
     details |-> Or(OptGet(OptGet(error, "response"), "data"), Null)])))

\* What the handler's promise settles with once a step ends it: the returned
\* result, or the result of the catch block for a thrown error.
Settle(step) ==
  IF step.kind = "return" THEN step.result ELSE Catch(step.error)

(***************************************************************************)
(* The remote API: what the await of a request can be settled with.        *)
(***************************************************************************)
\* A 2xx response of axios
Response(data) == Obj([status |-> Num(200), data |-> data])

\* The error axios rejects with when no response arrives
NetworkError == Obj([message |-> Lit("Network Error")])

\* The error axios rejects with on a non-2xx status
StatusError(status, data) ==
  Obj([message |-> Str(<<"Request failed with status code ">> \o status),
       response |-> Obj([status |-> Num(ParseInt(status)), data |-> data])])

(***************************************************************************)
(* Inputs: the invocations a client can send and the answers the remote    *)
(* API can give.                                                           *)
(***************************************************************************)
\* Longest unique_entity_value list the remote API answers with
MaxCities == 2

\* Most invocations a client sends in one pipelined session
MaxInvocations == 2

SeqsUpTo(S, n) == UNION {[1..k -> S] : k \in 0..n}

Opt(S) == S \cup {Undefined}

\* The arguments object a client sends: the supplied members only
Given(f) == Obj([k \in {j \in DOMAIN f : f[j] # Undefined} |-> f[k]])

CityPool ==
  {Str(<<"N", "e", "w">>), Str(<<"n", "e">>), Str(<<"E", "W">>), Str(<<"B", "o">>)}

PartialNames ==
  {EmptyStr, Str(<<"n", "e">>), Str(<<"N", "E">>), Str(<<"e", "w">>),
   Str(<<"w", "n">>), Str(<<"o">>)}

CityNames == {Lit("Austin"), Lit("Miami")}
ReportTypes == {Lit("Market Report")}
EntityTypes == {Lit("city"), Lit("Report")}
FromDates == {Lit("2024-01-01")}
ToDates == {Lit("2024-12-31")}
PageNums == {Num(0), Num(2)}
PageSizes == {Num(-1), Num(0), Num(1), Num(5), Num(50), Num(51)}

EntityDetails ==
  {Arr(<<>>),
   Arr(<<EntityFilter(Lit("city"), Lit("Austin"))>>),
   Arr(<<EntityFilter(Lit("Report"), Lit("Market Report")),
         EntityFilter(Lit("city"), Lit("Miami"))>>)}

Paged(key, values) ==
  {Given((key :> v) @@ [page_num |-> n, page_size |-> z]) :
     v \in Opt(values), n \in Opt(PageNums), z \in Opt(PageSizes)}

\* The arguments objects tried with each tool; undefined is a request
\* without an arguments object
ArgsOf(tool) ==
  {Undefined} \cup
  CASE tool = "list_entity_values" ->
         {Given([entity_type |-> e]) : e \in Opt(EntityTypes)}
    [] tool = "lookup_cities" ->
         {Given([partial_name |-> p]) : p \in Opt(PartialNames)}
    [] tool = "search_by_report_type" -> Paged("report_type", ReportTypes)
    [] tool = "search_by_city" -> Paged("city_name", CityNames)
    [] tool = "search_reports_by_date_range" ->
         {Given([start_date |-> f, end_date |-> u, page_num |-> n, page_size |-> z]) :
            f \in Opt(FromDates), u \in Opt(ToDates),
            n \in Opt(PageNums), z \in Opt(PageSizes)}
    [] tool = "advanced_content_search" ->
         {Given([published_date_from |-> f, published_date_to |-> u,
                 page_num |-> n, page_size |-> z, entity_details |-> d]) :
            f \in Opt(FromDates), u \in Opt(ToDates), n \in Opt(PageNums),
            z \in Opt(PageSizes), d \in Opt(EntityDetails)}
    [] tool \in {"get_latest_market_report_by_city",
                 "get_latest_price_analysis_by_city"} ->
         {Given([city_name |-> c, page_num |-> n, page_size |-> z]) :
            c \in Opt(CityNames), n \in Opt({Num(2)}), z \in Opt({Num(5)})}
    [] OTHER -> {EmptyObj}

UnknownNames == {"get_weather", "Lookup_Cities"}

\* Every invocation tried in a session of one invocation
Requests ==
  UNION {{[name |-> Name(tool), args |-> a] : a \in ArgsOf(tool)} :
           tool \in CatalogNames \cup UnknownNames}

\* The invocations a pipelining client draws from
SessionRequests ==
  {[name |-> Name("get_weather"), args |-> EmptyObj],
   [name |-> Name("list_available_entity_types"), args |-> EmptyObj],
   [name |-> Name("search_by_city"), args |-> Undefined],
   [name |-> Name("search_by_city"), args |-> Given([city_name |-> Lit("Austin")])]}

\* The bodies a 2xx answer to req can carry
DataFor(req) ==
  CASE req.url = EntityTypesUrl ->
         {Obj([unique_entity_type |-> Arr(<<Lit("Report"), Lit("city")>>)]), EmptyStr}
    [] req.url = EntityValuesUrl ->
         {Obj([unique_entity_value |-> Arr(q)]) : q \in SeqsUpTo(CityPool, MaxCities)}
           \cup {EmptyObj, EmptyStr}
    [] OTHER -> {Obj([items |-> Arr(<<>>), total |-> Num(0)]), EmptyStr}

\* The bodies a non-2xx answer can carry
ErrorBodies ==
  {EmptyStr, Lit("Bad Gateway"), EmptyObj,
   Obj([message |-> EmptyStr]),
   Obj([message |-> Lit("server error")]),
   Obj([message |-> Lit("invalid page_size"), code |-> Num(400)])}

\* The errors the await can be rejected with
Errors ==
  {NetworkError} \cup {StatusError(<<"5", "0", "0">>, b) : b \in ErrorBodies}

(***************************************************************************)
(* The session: invocations arrive on stdin, every one starts a run of     *)
(* the handler, and results leave on stdout as the runs settle.  calls is   *)
(* the runs of the handler, wire the HTTP requests issued, stdio the        *)
(* messages of the connection in the order they passed.                    *)
(***************************************************************************)
Pending == [kind |-> "pending"]

\* Requests on the wire whose round-trip has not resolved
InFlight == {w \in 1..Len(wire) : wire[w].state = "inflight"}

\* The requests call id has issued
IssuedBy(id) == {w \in 1..Len(wire) : wire[w].call = id}

Init ==
  /\ calls = <<>>
  /\ wire = <<>>
  /\ stdio = <<>>

\* An invocation arrives: the handler runs up to its await, or to its end
Invoke(toolName, args) ==
  LET id == Len(calls) + 1
      step == SwitchRequest(toolName, args)
      call == [name |-> toolName, args |-> args, settled |-> Pending]
      request == [dir |-> "in", id |-> id]
      response == [dir |-> "out", id |-> id]
  IN  /\ wire' = wire \o [i \in 1..Len(step.sent) |->
                            [call |-> id, req |-> step.sent[i], state |-> "inflight"]]
      /\ IF step.kind = "await"
           THEN /\ calls' = Append(calls, call @@ [pc |-> "awaiting", result |-> Undefined])
                /\ stdio' = Append(stdio, request)
           ELSE /\ calls' = Append(calls, call @@ [pc |-> "returned", result |-> Settle(step)])
                /\ stdio' = stdio \o <<request, response>>

\* The round-trip of request w resolves with outcome; the handler suspended
\* on it continues with step
Resolve(w, outcome, step) ==
  LET id == wire[w].call
  IN  /\ wire' = [wire EXCEPT ![w].state = "resolved"]
      /\ IF calls[id].pc = "awaiting"
           THEN /\ calls' = [calls EXCEPT ![id] =
                               [name |-> @.name, args |-> @.args, settled |-> outcome,
                                pc |-> "returned", result |-> Settle(step)]]
                /\ stdio' = Append(stdio, [dir |-> "out", id |-> id])
           ELSE UNCHANGED <<calls, stdio>>

\* The only invocation of a session arrives
Receive ==
  \E r \in Requests :
    /\ calls = <<>>
    /\ Invoke(r.name, r.args)

\* A further invocation of a pipelining client arrives
ReceivePipelined ==
  \E r \in SessionRequests :
    /\ Len(calls) < MaxInvocations
    /\ Invoke(r.name, r.args)

\* The remote API answers 2xx
Fulfil ==
  \E w \in InFlight : \E data \in DataFor(wire[w].req) :
    LET call == calls[wire[w].call]
    IN  Resolve(w, [kind |-> "fulfilled", data |-> data],
                SwitchResult(call.name, call.args, Response(data)))

\* The remote call fails: no answer, or a non-2xx answer
Reject ==
  \E w \in InFlight : \E error \in Errors :
    Resolve(w, [kind |-> "rejected", error |-> error], Throw(error))

Next == Receive \/ Fulfil \/ Reject

Spec == Init /\ [][Next]_vars

NextSession == ReceivePipelined \/ Fulfil \/ Reject

SpecSession == Init /\ [][NextSession]_vars

(***************************************************************************)
(* Properties.                                                             *)
(***************************************************************************)
Ids == 1..Len(calls)
Returned == {id \in Ids : calls[id].pc = "returned"}
Known(id) == \E tool \in CatalogNames : calls[id].name = Name(tool)
Tool(id, tool) == calls[id].name = Name(tool)
Supplied(args, k) == args # Undefined /\ k \in DOMAIN args.v

\* r is { content: [{ type: "text", text: <a text> }] }
IsTextResult(r) ==
  /\ DOMAIN r = {"content"}
  /\ Len(r.content) = 1
  /\ r.content[1].type = "text"
  /\ r.content[1].text # Undefined
  /\ r.content[1].text.t = "text"

\* The JSON document in the text of a text result
Envelope(r) == r.content[1].text.json

\* r carries { status: "error", message, details }
IsErrorEnvelope(r) ==
  /\ IsTextResult(r)
  /\ Envelope(r).t = "object"
  /\ DOMAIN Envelope(r).v = {"status", "message", "details"}
  /\ Envelope(r).v["status"] = Lit("error")
  /\ Envelope(r).v["message"].t = "string"

\* The answer of the remote API lacks what the tool reads from it
LacksExpectedFields(id) ==
  /\ calls[id].settled.kind = "fulfilled"
  /\ \/ Tool(id, "lookup_cities") \/ Tool(id, "list_report_types")
  /\ \/ calls[id].settled.data.t # "object"
     \/ "unique_entity_value" \notin DOMAIN calls[id].settled.data.v

\* The invocation of a returned call failed: unknown tool, no remote answer,
\* a rejected remote call, an answer without the expected fields, or
\* arguments the tool cannot work with
Failed(id) ==
  \/ ~Known(id)
  \/ calls[id].settled.kind \in {"pending", "rejected"}
  \/ LacksExpectedFields(id)
  \/ Tool(id, "lookup_cities") /\ ~Supplied(calls[id].args, "partial_name")

\* C1: every invocation that has ended returned a text-content result, and
\* when the invocation failed the text is an envelope with status "error", a
\* message and a details field; no failure escapes the handler as a fault.
C1_NeverThrows ==
  \A id \in Returned :
    /\ IsTextResult(calls[id].result)
    /\ Failed(id) => IsErrorEnvelope(calls[id].result)

\* A network error, or an answer without the expected fields, has been
\* turned into an error envelope.
C1_Witness ==
  \E id \in Returned :
    /\ IsErrorEnvelope(calls[id].result)
    /\ \/ calls[id].settled = [kind |-> "rejected", error |-> NetworkError]
       \/ LacksExpectedFields(id)

\* C2: an invocation whose tool name is not in the catalog returns the error
\* envelope with message "Unknown tool: <name>", and issues no HTTP request.
C2_UnknownTool ==
  \A id \in Ids :
    ~Known(id) =>
      /\ id \in Returned
      /\ IsErrorEnvelope(calls[id].result)
      /\ Envelope(calls[id].result).v["message"]
           = Str(<<"Unknown tool: ">> \o calls[id].name)
      /\ IssuedBy(id) = {}

C2_Witness ==
  \E id \in Returned :
    /\ Tool(id, "Lookup_Cities")
    /\ Envelope(calls[id].result).v["message"]
         = Str(<<"Unknown tool: ", "Lookup_Cities">>)
    /\ wire = <<>>

\* The tools whose case reads no argument before its request is sent
ReadsNoArgumentFirst ==
  {"list_available_entity_types", "lookup_cities", "list_report_types"}

\* C3 as stated: every invocation that has ended issued exactly one HTTP
\* request.
C3_ExactlyOneCall ==
  \A id \in Returned : Cardinality(IssuedBy(id)) = 1

\* C3 as amended: every invocation issues at most one HTTP request; exactly
\* one when the tool is in the catalog and an arguments object is present or
\* the tool reads no argument before its request; none otherwise.
C3_AtMostOneCall ==
  \A id \in Ids :
    /\ Cardinality(IssuedBy(id)) <= 1
    /\ Cardinality(IssuedBy(id)) = 1 <=>
         /\ Known(id)
         /\ \/ calls[id].args # Undefined
            \/ \E tool \in ReadsNoArgumentFirst : Tool(id, tool)

\* lookup_cities without an arguments object has issued its one request and
\* ended.
C3_Witness ==
  \E id \in Returned :
    /\ Tool(id, "lookup_cities")
    /\ calls[id].args = Undefined
    /\ Cardinality(IssuedBy(id)) = 1

Rejected(id) == id \in Returned /\ calls[id].settled.kind = "rejected"

\* The body of the remote answer the call was rejected with; undefined when
\* no answer arrived
ErrorBody(id) ==
  LET error == calls[id].settled.error
  IN  IF "response" \in DOMAIN error.v THEN error.v["response"].v["data"]
      ELSE Undefined

TransportMessage(id) == calls[id].settled.error.v["message"]

\* A remote error body is available
HasBody(id) == ErrorBody(id) \notin {Undefined, EmptyStr}

HasMessage(id) ==
  /\ ErrorBody(id).t = "object"
  /\ "message" \in DOMAIN ErrorBody(id).v

\* C4 as stated: when the remote call fails, the message of the envelope is
\* the message field of the remote error body if the body has one, else the
\* transport-level message; details is the remote body when one is
\* available, else null.
C4_RemoteMessage ==
  \A id \in Ids :
    Rejected(id) =>
      /\ IsErrorEnvelope(calls[id].result)
      /\ Envelope(calls[id].result).v["message"] =
           IF HasMessage(id) THEN ErrorBody(id).v["message"]
           ELSE TransportMessage(id)
      /\ Envelope(calls[id].result).v["details"] =
           IF HasBody(id) THEN ErrorBody(id) ELSE Null

\* C4 as amended: the message is the message field of the remote error body
\* if the body has a non-empty one, else the transport-level message; details
\* is the remote body when a non-empty one is available, else null.
C4_RemoteNonEmptyMessage ==
  \A id \in Ids :
    Rejected(id) =>
      /\ IsErrorEnvelope(calls[id].result)
      /\ Envelope(calls[id].result).v["message"] =
           IF HasMessage(id) /\ ErrorBody(id).v["message"] # EmptyStr
             THEN ErrorBody(id).v["message"]
           ELSE TransportMessage(id)
      /\ Envelope(calls[id].result).v["details"] =
           IF HasBody(id) THEN ErrorBody(id) ELSE Null

\* A remote 500 with body {message: "server error"} has produced
\* {status: "error", message: "server error", details: {message: "server error"}}.
C4_Witness ==
  \E id \in Returned :
    /\ Rejected(id)
    /\ ErrorBody(id) = Obj([message |-> Lit("server error")])
    /\ Envelope(calls[id].result) =
         Obj([status |-> Lit("error"), message |-> Lit("server error"),
              details |-> Obj([message |-> Lit("server error")])])

\* The feed queries on the wire
FeedQueries ==
  {w \in 1..Len(wire) : wire[w].req.method = "POST" /\ wire[w].req.url = FeedUrl}

Body(w) == wire[w].req.body

\* C5: in every POST to the feed-query endpoint the body's page_size is an
\* integer with 1 <= page_size <= 50.
C5_PageSizeInRange ==
  \A w \in FeedQueries :
    /\ "page_size" \in DOMAIN Body(w).v
    /\ Body(w).v["page_size"].t = "number"
    /\ Body(w).v["page_size"].v \in 1..50

\* The value the caller supplied for k, or the default when k is absent
SuppliedOr(args, k, default) ==
  IF Supplied(args, k) THEN args.v[k] ELSE default

\* The value the caller supplied for k when it is supplied and not 0, else
\* the default
NonZeroOr(args, k, default) ==
  IF Supplied(args, k) /\ args.v[k] # Num(0) THEN args.v[k] ELSE default

\* {entity_type, entity_value}; entity_value is left out when the caller
\* supplied none
ExpectedFilter(type, args, k) ==
  IF Supplied(args, k)
    THEN Obj([entity_type |-> Lit(type), entity_value |-> args.v[k]])
    ELSE Obj([entity_type |-> Lit(type)])

SingleFilterCase(id, type, k, page_num, page_size) ==
  /\ Cardinality(IssuedBy(id)) = 1
  /\ \A w \in IssuedBy(id) :
       /\ w \in FeedQueries
       /\ Body(w) = Obj([feed_id |-> Num(292),
                         page_num |-> page_num,
                         page_size |-> page_size,
                         entity_details |->
                           Arr(<<ExpectedFilter(type, calls[id].args, k)>>)])

\* C6 as stated: search_by_report_type and search_by_city send one POST to
\* the feed-query endpoint with the configured feed_id, page_num the caller's
\* when supplied and 0 when absent, page_size the caller's when supplied and
\* 10 when absent, and exactly one filter, of type "Report" resp. "city".
C6_SingleFilter ==
  \A id \in Ids :
    LET args == calls[id].args
    IN  /\ Tool(id, "search_by_report_type") =>
             SingleFilterCase(id, "Report", "report_type",
                              SuppliedOr(args, "page_num", Num(0)),
                              SuppliedOr(args, "page_size", Num(10)))
        /\ Tool(id, "search_by_city") =>
             SingleFilterCase(id, "city", "city_name",
                              SuppliedOr(args, "page_num", Num(0)),
                              SuppliedOr(args, "page_size", Num(10)))

\* C6 as amended: when an arguments object is sent, the two tools send one
\* POST with the configured feed_id, page_num the caller's when supplied and
\* not 0, else 0, page_size the caller's when supplied and not 0, else 10, and
\* exactly one filter, of type "Report" resp. "city".
C6_SingleFilterNonZero ==
  \A id \in Ids :
    LET args == calls[id].args
    IN  args # Undefined =>
          /\ Tool(id, "search_by_report_type") =>
               SingleFilterCase(id, "Report", "report_type",
                                NonZeroOr(args, "page_num", Num(0)),
                                NonZeroOr(args, "page_size", Num(10)))
          /\ Tool(id, "search_by_city") =>
               SingleFilterCase(id, "city", "city_name",
                                NonZeroOr(args, "page_num", Num(0)),
                                NonZeroOr(args, "page_size", Num(10)))

\* search_by_city({city_name: "Austin"}) has sent page_num 0, page_size 10
\* and the one city filter.
C6_Witness ==
  \E id \in Ids : \E w \in IssuedBy(id) :
    /\ Tool(id, "search_by_city")
    /\ calls[id].args = Obj([city_name |-> Lit("Austin")])
    /\ Body(w) = Obj([feed_id |-> Num(292), page_num |-> Num(0),
                      page_size |-> Num(10),
                      entity_details |->
                        Arr(<<Obj([entity_type |-> Lit("city"),
                                   entity_value |-> Lit("Austin")])>>)])

PassedThrough ==
  {"page_num", "page_size", "published_date_from", "published_date_to",
   "entity_details"}

Contains(text, part) ==
  \E a \in 1..(Len(text) + 1) : \E b \in 0..Len(text) :
    /\ b - a + 1 = Len(part)
    /\ \A i \in 1..Len(part) : text[a + i - 1] = part[i]

\* sub is the sub-sequence of list at the positions in keep, in list's order
IsSelection(sub, list, keep) ==
  /\ Len(sub) = Cardinality(keep)
  /\ \E at \in [1..Len(sub) -> keep] :
       /\ \A i, j \in 1..Len(sub) : i < j => at[i] < at[j]
       /\ \A i \in 1..Len(sub) : sub[i] = list[at[i]]

\* A lookup_cities call that succeeded: a partial_name was supplied and the
\* remote API answered with a unique_entity_value list
LookedUp(id) ==
  /\ id \in Returned
  /\ Tool(id, "lookup_cities")
  /\ Supplied(calls[id].args, "partial_name")
  /\ calls[id].settled.kind = "fulfilled"
  /\ ~LacksExpectedFields(id)

\* C8: lookup_cities requests the entity values of entity_type "city" and
\* does not send partial_name; on success it returns status "success",
\* matched_cities, count and usage_note, where matched_cities is the
\* sub-sequence, in the remote order, of the remote values whose lower-cased
\* text contains the lower-cased partial_name, and count is its length.
C8_LookupCities ==
  \A id \in Ids :
    Tool(id, "lookup_cities") =>
      /\ \A w \in IssuedBy(id) :
           wire[w].req = [method |-> "GET", url |-> EntityValuesUrl,
                          params |-> [entity_type |-> Lit("city")],
                          body |-> Undefined]
      /\ LookedUp(id) =>
           LET remote == calls[id].settled.data.v["unique_entity_value"].v
               partial == toLowerCase(calls[id].args.v["partial_name"].v)
               keep == {i \in 1..Len(remote) :
                          Contains(toLowerCase(remote[i].v), partial)}
               out == Envelope(calls[id].result)
           IN  /\ IsTextResult(calls[id].result)
               /\ DOMAIN out.v = {"status", "matched_cities", "count", "usage_note"}
               /\ out.v["status"] = Lit("success")
               /\ IsSelection(out.v["matched_cities"].v, remote, keep)
               /\ out.v["count"] = Num(Len(out.v["matched_cities"].v))

\* lookup_cities("NE") against ["Bo", "New"] has returned ["New"], count 1.
C8_Witness ==
  \E id \in Ids :
    /\ LookedUp(id)
    /\ calls[id].args = Obj([partial_name |-> Str(<<"N", "E">>)])
    /\ calls[id].settled.data =
         Obj([unique_entity_value |->
                Arr(<<Str(<<"B", "o">>), Str(<<"N", "e", "w">>)>>)])
    /\ Envelope(calls[id].result).v["matched_cities"] = Arr(<<Str(<<"N", "e", "w">>)>>)
    /\ Envelope(calls[id].result).v["count"] = Num(1)

RECURSIVE OutIds(_)
OutIds(msgs) ==
  IF msgs = <<>> THEN <<>>
  ELSE (IF Head(msgs).dir = "out" THEN <<Head(msgs).id>> ELSE <<>>)
       \o OutIds(Tail(msgs))

InOrder(ids) == \A i, j \in 1..Len(ids) : i < j => ids[i] < ids[j]

\* The client sent every invocation after it had the result of the one before
OneAtATime ==
  \A j \in 1..Len(stdio) :
    stdio[j].dir = "in" /\ stdio[j].id > 1 =>
      \E i \in 1..(j - 1) : stdio[i] = [dir |-> "out", id |-> stdio[j].id - 1]

\* C10 as stated: at most one remote call is in flight in a session, and the
\* envelopes are returned in the order the invocations were received.
C10_OneInFlight ==
  /\ Cardinality(InFlight) <= 1
  /\ InOrder(OutIds(stdio))

\* C10 as amended: every invocation has at most one remote call in flight
\* and returns its envelope only after that call has resolved; hence with a
\* client that sends its invocations one at a time at most one remote call
\* is in flight and the envelopes are returned in the order of the
\* invocations.
C10_OneInFlightPerInvocation ==
  /\ \A id \in Ids :
       /\ Cardinality(IssuedBy(id) \cap InFlight) <= 1
       /\ id \in Returned => IssuedBy(id) \cap InFlight = {}
  /\ OneAtATime =>
       /\ Cardinality(InFlight) <= 1
       /\ InOrder(OutIds(stdio))

\* A client working one at a time has its second invocation's call in flight
\* after the first invocation's call has resolved.
C10_Witness ==
  /\ OneAtATime
  /\ Len(calls) = 2
  /\ 1 \in Returned /\ IssuedBy(1) # {}
  /\ IssuedBy(2) \cap InFlight # {}

\* The body of feed query w declares entity_details as an empty list
EmptyButDeclared(w) ==
  /\ "entity_details" \in DOMAIN Body(w).v
  /\ Body(w).v["entity_details"] = Arr(<<>>)

\* C11 as stated: no feed query carries entity_details as an empty list; the
\* body omits entity_details or carries at least one filter.
C11_NeverEmptyList ==
  \A w \in FeedQueries : ~EmptyButDeclared(w)

\* C11 as amended: the feed queries of every tool but advanced_content_search
\* omit entity_details or carry at least one filter; advanced_content_search
\* sends entity_details as an empty list exactly when the caller supplied an
\* empty list.
C11_EmptyListOnlyVerbatim ==
  \A id \in Ids : \A w \in IssuedBy(id) :
    w \in FeedQueries =>
      (EmptyButDeclared(w) <=>
         /\ Tool(id, "advanced_content_search")
         /\ Supplied(calls[id].args, "entity_details")
         /\ calls[id].args.v["entity_details"] = Arr(<<>>))

\* advanced_content_search called with entity_details: [] has posted the
\* empty list.
C11_Witness ==
  \E id \in Ids : \E w \in IssuedBy(id) :
    /\ Tool(id, "advanced_content_search")
    /\ Supplied(calls[id].args, "entity_details")
    /\ calls[id].args.v["entity_details"] = Arr(<<>>)
    /\ EmptyButDeclared(w)

====
